---- MODULE Spec2Model ----
(***************************************************************************)
(* The grocery basket of script.js: the globals token, basket, prices and  *)
(* items, the basket handlers, the price comparison calculatePrices, and   *)
(* the asynchronous requests of showMainApp and loadList.                  *)
(*                                                                         *)
(* Amounts are whole pence.  The three DOM regions calculatePrices writes  *)
(* (recommendations-body, totals-body, savings-text) are kept in display   *)
(* as the values they render, basket-body as its number of rows, and       *)
(* savedLists tells whether the saved-lists container holds Load buttons.  *)
(* saveList and deleteList change none of these but the saved-lists        *)
(* container, which showMainApp fills as well.  An answer of GET /prices   *)
(* is taken to be a price table.  One showMainApp runs at a time.          *)
(***************************************************************************)
EXTENDS Integers, Sequences, FiniteSets, TLC

VARIABLES token, basket, prices, items, rows, display, savedLists, mainPc, inflight, hist

vars == <<token, basket, prices, items, rows, display, savedLists, mainPc, inflight, hist>>

(* ------------------------------ bounds -------------------------------- *)

\* longest price table drawn for the comparison on its own
MaxPrices == 3
\* longest price table the server answers with in the running application
MaxCatalog == 1
\* longest partial price table drawn under the basket edits
MaxEditPrices == 2
\* most basket lines
MaxLines == 2
\* largest magnitude of a line's quantity
MaxQty == 2
\* most loadList requests in flight at once
MaxInFlight == 1

(* ------------------------------ inputs -------------------------------- *)

NoToken == "null"
AccessToken == "tok"

ItemNames == {"milk", "bread"}
StoreNames == {"Tesco", "Asda"}
PriceVals == {0, 1, 2}

PriceEntries == [item : ItemNames, store : StoreNames, price_per_unit_gbp : PriceVals]

SeqsUpTo(S, n) == UNION {[1..k -> S] : k \in 0..n}

\* what GET /prices can answer
Catalogs(n) == SeqsUpTo(PriceEntries, n)

\* what GET /lists/{id} can answer in list.items
ServerLists ==
    SeqsUpTo([item_name : ItemNames, quantity : 1..MaxQty], MaxLines)

\* texts of the quantity input field, one character per element
QuantityTexts ==
    { <<>>, <<"a", "b", "c">>, <<"0">>, <<" ", "2">>, <<"-", "1">>,
      <<"1", ".", "5">> }

(* --------------------------- parseInt, || ----------------------------- *)

\* a JavaScript number: NaN, or a whole value
NaN == [nan |-> TRUE, value |-> 0]
Num(n) == [nan |-> FALSE, value |-> n]

DigitChars == {"0", "1", "2", "3", "4", "5", "6", "7", "8", "9"}

DigitVal(c) ==
    CASE c = "0" -> 0 [] c = "1" -> 1 [] c = "2" -> 2 [] c = "3" -> 3
      [] c = "4" -> 4 [] c = "5" -> 5 [] c = "6" -> 6 [] c = "7" -> 7
      [] c = "8" -> 8 [] c = "9" -> 9

RECURSIVE TrimStart(_)
TrimStart(s) ==
    IF s # <<>> /\ Head(s) = " " THEN TrimStart(Tail(s)) ELSE s

RECURSIVE DigitsValue(_, _)
DigitsValue(s, acc) ==
    IF s = <<>> \/ Head(s) \notin DigitChars
    THEN acc
    ELSE DigitsValue(Tail(s), acc * 10 + DigitVal(Head(s)))

\* parseInt(text): leading blanks, an optional sign, then the longest run of
\* decimal digits; NaN when there is no digit.  (No text of QuantityTexts
\* starts with 0x.)
parseInt(text) ==
    LET t == TrimStart(text)
        signed == t # <<>> /\ Head(t) \in {"+", "-"}
        u == IF signed THEN Tail(t) ELSE t
    IN  IF u = <<>> \/ Head(u) \notin DigitChars
        THEN NaN
        ELSE IF signed /\ Head(t) = "-"
             THEN Num(0 - DigitsValue(u, 0))
             ELSE Num(DigitsValue(u, 0))

\* x || d on a number: NaN and 0 are falsy
OrElse(x, d) == IF x.nan \/ x.value = 0 THEN d ELSE x.value

QuantityOf(text) == OrElse(parseInt(text), 1)

(* --------------------------- calculatePrices -------------------------- *)

\* as ItemPrices, with the filter left out
ItemPricesUnfiltered(p, itemName) == p

\* prices.filter(p => p.item === basketItem.item)
ItemPrices(p, itemName) == SelectSeq(p, LAMBDA e : e.item = itemName)

\* itemPrices.reduce((min, p) => p.price < min.price ? p : min), no initial value
RECURSIVE ReduceMin(_, _)
ReduceMin(min, rest) ==
    IF rest = <<>>
    THEN min
    ELSE ReduceMin(IF Head(rest).price_per_unit_gbp < min.price_per_unit_gbp
                   THEN Head(rest) ELSE min,
                   Tail(rest))

\* as Cheapest, with <= for <: the last of the cheapest entries
RECURSIVE ReduceMinOrEqual(_, _)
ReduceMinOrEqual(min, rest) ==
    IF rest = <<>>
    THEN min
    ELSE ReduceMinOrEqual(
            IF Head(rest).price_per_unit_gbp <= min.price_per_unit_gbp
            THEN Head(rest) ELSE min,
            Tail(rest))

CheapestLastOnTie(itemPrices) ==
    ReduceMinOrEqual(Head(itemPrices), Tail(itemPrices))

Cheapest(itemPrices) == ReduceMin(Head(itemPrices), Tail(itemPrices))

\* storeTotals is an object: its keys keep insertion order
HasKey(totals, store) == \E i \in 1..Len(totals) : totals[i].store = store

\* if (!storeTotals[s]) storeTotals[s] = 0;  storeTotals[s] += amount
AddToStore(totals, store, amount) ==
    IF HasKey(totals, store)
    THEN [i \in 1..Len(totals) |->
            IF totals[i].store = store
            THEN [store |-> store,
                  total |-> (IF totals[i].total = 0 THEN 0 ELSE totals[i].total) + amount]
            ELSE totals[i]]
    ELSE Append(totals, [store |-> store, total |-> 0 + amount])

\* itemPrices.forEach(p => ...) over one basket line
RECURSIVE AddItemPrices(_, _, _)
AddItemPrices(totals, itemPrices, quantity) ==
    IF itemPrices = <<>>
    THEN totals
    ELSE AddItemPrices(
            AddToStore(totals, Head(itemPrices).store,
                       Head(itemPrices).price_per_unit_gbp * quantity),
            Tail(itemPrices), quantity)

\* one turn of basket.forEach
BasketLineStep(acc, basketItem, p) ==
    LET itemPrices == ItemPrices(p, basketItem.item)
    IN  IF Len(itemPrices) > 0
        THEN LET cheapest == Cheapest(itemPrices)
             IN  [recommendations |->
                      Append(acc.recommendations,
                             [item |-> basketItem.item,
                              store |-> cheapest.store,
                              price |-> cheapest.price_per_unit_gbp * basketItem.quantity,
                              quantity |-> basketItem.quantity]),
                  storeTotals |->
                      AddItemPrices(acc.storeTotals, itemPrices, basketItem.quantity)]
        ELSE acc

RECURSIVE BasketPass(_, _, _)
BasketPass(acc, b, p) ==
    IF b = <<>>
    THEN acc
    ELSE BasketPass(BasketLineStep(acc, Head(b), p), Tail(b), p)

Comparison(b, p) ==
    BasketPass([recommendations |-> <<>>, storeTotals |-> <<>>], b, p)

\* as InsertSorted, comparing b[1] - a[1]: dearest first
RECURSIVE InsertSortedDescending(_, _)
InsertSortedDescending(sorted, e) ==
    IF sorted = <<>>
    THEN <<e>>
    ELSE IF Head(sorted).total - e.total < 0
         THEN <<e>> \o sorted
         ELSE <<Head(sorted)>> \o InsertSortedDescending(Tail(sorted), e)

\* Object.entries(storeTotals).sort((a, b) => a[1] - b[1]); the sort is stable
RECURSIVE InsertSorted(_, _)
InsertSorted(sorted, e) ==
    IF sorted = <<>>
    THEN <<e>>
    ELSE IF e.total - Head(sorted).total < 0
         THEN <<e>> \o sorted
         ELSE <<Head(sorted)>> \o InsertSorted(Tail(sorted), e)

RECURSIVE SortFrom(_, _)
SortFrom(sorted, rest) ==
    IF rest = <<>>
    THEN sorted
    ELSE SortFrom(InsertSorted(sorted, Head(rest)), Tail(rest))

\* as SortedStores, with the sort left out
SortedStoresUnsorted(totals) == totals

SortedStores(totals) == SortFrom(<<>>, totals)

\* sortedStores[0]?.[1] || 0
CheapestTotal(sortedStores) ==
    IF Len(sortedStores) = 0 THEN 0 ELSE OrElse(Num(sortedStores[1].total), 0)

\* sortedStores[sortedStores.length - 1]?.[1] || 0
MostExpensive(sortedStores) ==
    IF Len(sortedStores) = 0 THEN 0
    ELSE OrElse(Num(sortedStores[Len(sortedStores)].total), 0)

Savings(sortedStores) == MostExpensive(sortedStores) - CheapestTotal(sortedStores)

EmptyDisplay ==
    [recommendationsBody |-> <<>>, totalsBody |-> <<>>, savingsText |-> <<>>]

\* what calculatePrices leaves in the three DOM regions
calculatePrices(b, p) ==
    IF Len(b) = 0
    THEN EmptyDisplay
    ELSE LET c == Comparison(b, p)
             sortedStores == SortedStores(c.storeTotals)
             savings == Savings(sortedStores)
         IN  [recommendationsBody |->
                  [i \in 1..Len(c.recommendations) |->
                      [item |-> c.recommendations[i].item,
                       store |-> c.recommendations[i].store,
                       price |-> c.recommendations[i].price]],
              totalsBody |->
                  [i \in 1..Len(sortedStores) |->
                      [store |-> sortedStores[i].store,
                       total |-> sortedStores[i].total,
                       cheapest |-> (i = 1)]],
              savingsText |->
                  IF savings > 0
                  THEN <<savings, sortedStores[1].store>>
                  ELSE <<>>]

(* ----------------------------- the basket ----------------------------- *)

\* basket.find(b => b.item === itemName): index of the first such line, 0 if none
FindLine(b, itemName) ==
    IF \E i \in 1..Len(b) : b[i].item = itemName
    THEN CHOOSE i \in 1..Len(b) :
            /\ b[i].item = itemName
            /\ \A j \in 1..(i - 1) : b[j].item # itemName
    ELSE 0

\* existing ? existing.quantity += quantity : basket.push({item, quantity})
AddLine(b, itemName, quantity) ==
    LET k == FindLine(b, itemName)
    IN  IF k # 0
        THEN [b EXCEPT ![k].quantity = @ + quantity]
        ELSE Append(b, [item |-> itemName, quantity |-> quantity])

\* as Splice, with the index counted from 1
SpliceFromOne(b, index) ==
    IF index \in 1..Len(b)
    THEN SubSeq(b, 1, index - 1) \o SubSeq(b, index + 1, Len(b))
    ELSE b

\* basket.splice(index, 1), index counted from 0
Splice(b, index) ==
    IF index + 1 \in 1..Len(b)
    THEN SubSeq(b, 1, index) \o SubSeq(b, index + 2, Len(b))
    ELSE b

\* list.items.map(i => ({item: i.item_name, quantity: i.quantity}))
MapItems(listItems) ==
    [i \in 1..Len(listItems) |->
        [item |-> listItems[i].item_name, quantity |-> listItems[i].quantity]]

InBounds(b) ==
    /\ Len(b) <= MaxLines
    /\ \A i \in 1..Len(b) : b[i].quantity \in (0 - MaxQty)..MaxQty

(* ------------------------------ handlers ------------------------------ *)

\* renderBasket: one row, with its remove button, per basket line
renderBasket(b) == Len(b)

\* The main section, with every button below, is shown exactly while token
\* is set: showMainApp shows it after token is set, logout hides it.
MainShown == token # NoToken

\* the picker offers the empty choice and one option per loaded item
PickerValues == {""} \cup items

addToBasket(itemName, text) ==
    /\ MainShown
    /\ itemName \in PickerValues
    /\ IF itemName = ""
       THEN UNCHANGED <<basket, rows, display>>
       ELSE /\ basket' = AddLine(basket, itemName, QuantityOf(text))
            /\ InBounds(basket')
            /\ rows' = renderBasket(basket')
            /\ display' = calculatePrices(basket', prices)
    /\ UNCHANGED <<token, prices, items, savedLists, mainPc, inflight>>

removeFromBasket(index) ==
    /\ MainShown
    /\ index < rows
    /\ basket' = Splice(basket, index)
    /\ rows' = renderBasket(basket')
    /\ display' = calculatePrices(basket', prices)
    /\ UNCHANGED <<token, prices, items, savedLists, mainPc, inflight>>

clearBasket ==
    /\ MainShown
    /\ basket' = <<>>
    /\ rows' = renderBasket(basket')
    /\ display' = calculatePrices(basket', prices)
    /\ UNCHANGED <<token, prices, items, savedLists, mainPc, inflight>>

\* the body of logout(): no renderBasket, no calculatePrices; the rows of the
\* old basket keep their remove buttons
LogoutBody ==
    /\ token' = NoToken
    /\ basket' = <<>>
    /\ UNCHANGED <<prices, items, rows, display, savedLists>>

logout ==
    /\ MainShown
    /\ LogoutBody
    /\ UNCHANGED <<mainPc, inflight, hist>>

\* login() / register() answered ok: token is set and showMainApp starts
login ==
    /\ token = NoToken
    /\ mainPc = "idle"
    /\ token' = AccessToken
    /\ mainPc' = "me"
    /\ UNCHANGED <<basket, prices, items, rows, display, savedLists, inflight, hist>>

\* showMainApp after GET /auth/me: go on to the loads, or logout() and return
showMainAppMe(ok) ==
    /\ mainPc = "me"
    /\ IF ok
       THEN /\ mainPc' = "prices"
            /\ UNCHANGED <<token, basket, prices, items, rows, display, savedLists>>
       ELSE /\ mainPc' = "idle"
            /\ LogoutBody
    /\ UNCHANGED <<inflight, hist>>

\* loadPrices after GET /prices: prices = await response.json(), or the catch
loadPrices(ok, table) ==
    /\ mainPc = "prices"
    /\ prices' = IF ok THEN table ELSE prices
    /\ mainPc' = "items"
    /\ UNCHANGED <<token, basket, items, rows, display, savedLists, inflight, hist>>

\* loadItems after GET /prices/items: the picker is refilled from the answer,
\* or the catch leaves it
loadItems(ok, names) ==
    /\ mainPc = "items"
    /\ items' = IF ok THEN names ELSE items
    /\ mainPc' = "lists"
    /\ UNCHANGED <<token, basket, prices, rows, display, savedLists, inflight, hist>>

\* loadSavedLists after GET /lists: renderSavedLists draws one Load button
\* per saved list, or the message that there is none; not ok, or the catch,
\* leaves the container as it was
loadSavedLists(ok, some) ==
    /\ mainPc = "lists"
    /\ savedLists' = IF ok THEN some ELSE savedLists
    /\ mainPc' = "idle"
    /\ UNCHANGED <<token, basket, prices, items, rows, display, inflight, hist>>

\* loadList(listId) up to its first await: the request leaves
loadListStart ==
    /\ MainShown
    /\ savedLists
    /\ inflight < MaxInFlight
    /\ inflight' = inflight + 1
    /\ UNCHANGED <<token, basket, prices, items, rows, display, savedLists, mainPc, hist>>

\* loadList after the awaits: the answer of a request sent earlier
loadListDone(ok, listItems) ==
    /\ inflight > 0
    /\ inflight' = inflight - 1
    /\ IF ok
       THEN /\ basket' = MapItems(listItems)
            /\ rows' = renderBasket(basket')
            /\ display' = calculatePrices(basket', prices)
       ELSE UNCHANGED <<basket, rows, display>>
    /\ UNCHANGED <<token, prices, items, savedLists, mainPc, hist>>

(* --------------------------- specifications --------------------------- *)

NoHist == [op |-> "none", item |-> "", before |-> <<>>]

\* the page after load: token from localStorage, DOMContentLoaded has run
Init ==
    /\ token \in {NoToken, AccessToken}
    /\ basket = <<>>
    /\ prices = <<>>
    /\ items = {}
    /\ rows = 0
    /\ display = EmptyDisplay
    /\ savedLists = FALSE
    /\ mainPc = IF token # NoToken THEN "me" ELSE "idle"
    /\ inflight = 0
    /\ hist = NoHist

AddToBasket ==
    /\ \E itemName \in ItemNames \cup {""}, text \in QuantityTexts :
          addToBasket(itemName, text)
    /\ UNCHANGED hist
RemoveFromBasket ==
    /\ \E index \in 0..(MaxLines - 1) : removeFromBasket(index)
    /\ UNCHANGED hist
ClearBasket == clearBasket /\ UNCHANGED hist
LoadSavedLists == \E ok, some \in BOOLEAN : loadSavedLists(ok, some)
\* what GET /prices/items can answer: nothing, or every item
ItemAnswers == {{}, ItemNames}
LoadItems == \E ok \in BOOLEAN, names \in ItemAnswers : loadItems(ok, names)
ShowMainAppMe == \E ok \in BOOLEAN : showMainAppMe(ok)
LoadPrices == \E ok \in BOOLEAN, table \in Catalogs(MaxCatalog) : loadPrices(ok, table)
LoadListDone ==
    \E ok \in BOOLEAN, listItems \in ServerLists : loadListDone(ok, listItems)

Next ==
    \/ AddToBasket
    \/ RemoveFromBasket
    \/ ClearBasket
    \/ logout
    \/ login
    \/ ShowMainAppMe
    \/ LoadPrices
    \/ LoadItems
    \/ LoadSavedLists
    \/ loadListStart
    \/ LoadListDone

Spec == Init /\ [][Next]_vars

(* ------------------- the comparison on its own ------------------------ *)

\* Any list a loadList answer installs, under any price table a loadPrices
\* answer installs, with the comparison loadList has just computed; then
\* the basket handlers, hist telling that one of them has run.
InitCalc ==
    /\ token = AccessToken
    /\ basket \in {MapItems(listItems) : listItems \in ServerLists}
    /\ prices \in Catalogs(MaxPrices)
    /\ items = ItemNames
    /\ savedLists = TRUE
    /\ rows = renderBasket(basket)
    /\ display = calculatePrices(basket, prices)
    /\ mainPc = "idle"
    /\ inflight = 0
    /\ hist = NoHist

Edited == [op |-> "edited", item |-> "", before |-> <<>>]

CalcAdd ==
    \E itemName \in ItemNames \cup {""}, text \in QuantityTexts :
        /\ addToBasket(itemName, text)
        /\ hist' = IF itemName = "" THEN hist ELSE Edited

CalcRemove ==
    \E index \in 0..(MaxLines - 1) :
        /\ removeFromBasket(index)
        /\ hist' = Edited

CalcClear ==
    /\ clearBasket
    /\ hist' = Edited

NextCalc == CalcAdd \/ CalcRemove \/ CalcClear

SpecCalc == InitCalc /\ [][NextCalc]_vars

(* ------------------- basket edits, with their history ----------------- *)

\* every item at every store, once, in the order the stores are listed
FullKeys ==
    << [item |-> "milk", store |-> "Tesco"], [item |-> "milk", store |-> "Asda"],
       [item |-> "bread", store |-> "Tesco"], [item |-> "bread", store |-> "Asda"] >>

FullCatalogs ==
    { [k \in 1..Len(FullKeys) |->
          [item |-> FullKeys[k].item, store |-> FullKeys[k].store,
           price_per_unit_gbp |-> f[k]]] : f \in [1..Len(FullKeys) -> PriceVals] }

InitEdit ==
    /\ token = AccessToken
    /\ basket \in {MapItems(listItems) : listItems \in ServerLists}
    /\ prices \in Catalogs(MaxEditPrices) \cup FullCatalogs
    /\ items = ItemNames
    /\ savedLists = TRUE
    /\ rows = renderBasket(basket)
    /\ display = calculatePrices(basket, prices)
    /\ mainPc = "idle"
    /\ inflight = 0
    /\ hist = NoHist

\* hist remembers the last basket handler: for an add, the item and the
\* basket before it; for the removal, right after an add, of the line that
\* holds the added item, the item and the basket before the add.
EditAdd ==
    \E itemName \in ItemNames \cup {""}, text \in QuantityTexts :
        /\ addToBasket(itemName, text)
        /\ hist' = IF itemName = ""
                   THEN hist
                   ELSE [op |-> "add", item |-> itemName, before |-> basket]

EditRemove ==
    \E index \in 0..(MaxLines - 1) :
        /\ removeFromBasket(index)
        /\ hist' = IF hist.op = "add" /\ index + 1 = FindLine(basket, hist.item)
                   THEN [hist EXCEPT !.op = "addremove"]
                   ELSE [op |-> "remove", item |-> "", before |-> <<>>]

EditClear ==
    /\ clearBasket
    /\ hist' = [op |-> "clear", item |-> "", before |-> <<>>]

NextEdit == EditAdd \/ EditRemove \/ EditClear

SpecEdit == InitEdit /\ [][NextEdit]_vars

(* ----------------------------- properties ----------------------------- *)

\* the basket lines whose item the price table lists
Listed(p, itemName) == \E k \in 1..Len(p) : p[k].item = itemName
MatchedLines(b, p) == SelectSeq(b, LAMBDA line : Listed(p, line.item))

\* the first, in table order, of the cheapest entries of an item
FirstMin(p, itemName) ==
    CHOOSE k \in 1..Len(p) :
        /\ p[k].item = itemName
        /\ \A j \in 1..Len(p) :
              p[j].item = itemName =>
                 /\ p[k].price_per_unit_gbp <= p[j].price_per_unit_gbp
                 /\ j < k => p[k].price_per_unit_gbp < p[j].price_per_unit_gbp

RECURSIVE SumOver(_, _)
SumOver(f, S) ==
    IF S = {} THEN 0
    ELSE LET x == CHOOSE y \in S : TRUE IN f[x] + SumOver(f, S \ {x})

\* what one unit of an item costs at a store: its entries there, added up
UnitPrice(p, store, itemName) ==
    SumOver([k \in 1..Len(p) |-> p[k].price_per_unit_gbp],
            {k \in 1..Len(p) : p[k].store = store /\ p[k].item = itemName})

Carries(p, store, itemName) ==
    \E k \in 1..Len(p) : p[k].store = store /\ p[k].item = itemName

\* the whole basket at one store
BasketCost(b, p, store) ==
    SumOver([i \in 1..Len(b) |-> UnitPrice(p, store, b[i].item) * b[i].quantity],
            1..Len(b))

CheapestStore(d) ==
    IF d.totalsBody = <<>> THEN "none" ELSE d.totalsBody[1].store

\* C1: each recommendation names the first, in price-table order, of the
\* entries with the lowest price per unit for its item, so no entry for that
\* item is cheaper.
C1_CheapestEntryFirstInOrder ==
    LET m == MatchedLines(basket, prices)
        r == display.recommendationsBody
    IN  /\ Len(r) = Len(m)
        /\ \A i \in 1..Len(r) :
              LET k == FirstMin(prices, m[i].item)
              IN  /\ r[i].item = m[i].item
                  /\ r[i].store = prices[k].store
                  /\ r[i].price = prices[k].price_per_unit_gbp * m[i].quantity
                  /\ \A j \in 1..Len(prices) :
                        prices[j].item = r[i].item =>
                           prices[k].price_per_unit_gbp <= prices[j].price_per_unit_gbp

\* after an edit, a recommended item whose lowest price two stores share,
\* with a dearer entry listed before both
C1_Witness ==
    /\ hist.op = "edited"
    /\ Len(display.recommendationsBody) > 0
    /\ \E j, k \in 1..Len(prices) :
          /\ j < k
          /\ prices[j].item = display.recommendationsBody[1].item
          /\ prices[k].item = prices[j].item
          /\ prices[j].store # prices[k].store
          /\ prices[j].price_per_unit_gbp = prices[k].price_per_unit_gbp
          /\ FirstMin(prices, prices[j].item) = j
          /\ j > 1
          /\ prices[1].item = prices[j].item
          /\ display.recommendationsBody[1].price > 0

\* C2: every store total is the cost of the entire basket at that store: the
\* store has a price for every basket line's item that the price table lists
\* at all, and the total is the sum over all lines of its price per unit
\* times the quantity.
C2_TotalIsWholeBasket ==
    \A i \in 1..Len(display.totalsBody) :
        LET store == display.totalsBody[i].store
        IN  /\ \A n \in 1..Len(basket) :
                  Listed(prices, basket[n].item) =>
                     Carries(prices, store, basket[n].item)
            /\ display.totalsBody[i].total = BasketCost(basket, prices, store)

\* C3: one recommendation per basket line whose item is listed, in basket
\* order, none for the others, and the whole result is that of the basket
\* without the unlisted lines.
C3_OnePerListedLine ==
    LET m == MatchedLines(basket, prices)
        r == display.recommendationsBody
    IN  /\ Len(r) = Len(m)
        /\ \A i \in 1..Len(r) : r[i].item = m[i].item
        /\ display = calculatePrices(m, prices)
        /\ \A i \in 1..Len(display.totalsBody) :
              display.totalsBody[i].total =
                  BasketCost(m, prices, display.totalsBody[i].store)

\* after an edit, a listed line after an unlisted one, two stores pricing it
C3_Witness ==
    /\ hist.op = "edited"
    /\ Len(basket) = 2
    /\ ~Listed(prices, basket[1].item)
    /\ Listed(prices, basket[2].item)
    /\ Len(display.recommendationsBody) = 1
    /\ Len(display.totalsBody) = 2
    /\ display.savingsText # <<>>

\* C4: savings is the largest store total minus the smallest, never
\* negative, 0 with at most one store total, and the message shows exactly a
\* positive savings.
C4_SavingsIsSpread ==
    LET totals == Comparison(basket, prices).storeTotals
        amounts == {totals[i].total : i \in 1..Len(totals)}
        savings == Savings(SortedStores(totals))
    IN  /\ amounts # {} =>
              \E hi, lo \in amounts :
                 /\ \A a \in amounts : lo <= a /\ a <= hi
                 /\ savings = hi - lo
        /\ savings >= 0
        /\ Len(totals) <= 1 => savings = 0 /\ display.savingsText = <<>>
        /\ savings = 0 => display.savingsText = <<>>
        /\ (savings > 0 /\ basket # <<>>) =>
              /\ display.savingsText = <<savings, CheapestStore(display)>>
              /\ display.totalsBody[1].total + savings =
                    display.totalsBody[Len(display.totalsBody)].total

\* after an edit, two store totals, the dearer computed first, and a message
C4_Witness ==
    LET totals == Comparison(basket, prices).storeTotals
    IN  /\ hist.op = "edited"
        /\ Len(totals) = 2
        /\ totals[1].total > totals[2].total
        /\ display.savingsText # <<>>

\* C5: the display is the comparison of the current basket under the current
\* price table.
C5_DisplayIsCurrent == display = calculatePrices(basket, prices)

\* C6: no two basket lines hold the same item.
C6_OneLinePerItem ==
    \A i, j \in 1..Len(basket) : basket[i].item = basket[j].item => i = j

\* C7: every quantity in the basket is a positive integer.
C7_QuantitiesPositive ==
    \A i \in 1..Len(basket) : basket[i].quantity >= 1

\* C8 as claimed: after an add and the removal of the line holding the added
\* item, the comparison is the one of the basket before the add, whether or
\* not the item was in the basket.
C8_AddRemoveRestoresAlways ==
    hist.op = "addremove" => display = calculatePrices(hist.before, prices)

\* C8: after adding an item that was not in the basket and removing the line
\* that holds it, the basket and the comparison are those before the add.
C8_AddRemoveRestoresNewItem ==
    (hist.op = "addremove" /\ FindLine(hist.before, hist.item) = 0) =>
        /\ basket = hist.before
        /\ display = calculatePrices(hist.before, prices)

\* a listed item added to, and removed from, a basket that holds another
\* listed item
C8_Witness ==
    /\ hist.op = "addremove"
    /\ FindLine(hist.before, hist.item) = 0
    /\ Listed(prices, hist.item)
    /\ Len(hist.before) > 0
    /\ Len(display.recommendationsBody) > 0

\* the last handler added a positive quantity to a line already in the basket
Increased ==
    /\ hist.op = "add"
    /\ FindLine(hist.before, hist.item) # 0
    /\ Len(basket) = Len(hist.before)
    /\ \E k \in 1..Len(basket) : basket[k].quantity > hist.before[k].quantity

StoresOf(d) == {d.totalsBody[i].store : i \in 1..Len(d.totalsBody)}

\* C9 as claimed: raising a line's quantity leaves the cheapest store as it
\* was, unless the store selected for some line changes.
C9_IncreaseKeepsCheapestStore ==
    LET before == calculatePrices(hist.before, prices)
    IN  (/\ Increased
         /\ [i \in 1..Len(before.recommendationsBody) |->
                before.recommendationsBody[i].store]
            = [i \in 1..Len(display.recommendationsBody) |->
                display.recommendationsBody[i].store])
        => CheapestStore(display) = CheapestStore(before)

\* C9: raising a line's quantity never changes the store selected for any
\* line, and it leaves the cheapest store as it was when no store with a
\* total charges less per unit of the raised item than the cheapest store
\* (a store that does not list the item charging 0).
C9_IncreaseKeepsDominantStore ==
    LET before == calculatePrices(hist.before, prices)
    IN  Increased =>
           /\ [i \in 1..Len(before.recommendationsBody) |->
                  before.recommendationsBody[i].store]
              = [i \in 1..Len(display.recommendationsBody) |->
                  display.recommendationsBody[i].store]
           /\ (\A s \in StoresOf(before) :
                  UnitPrice(prices, CheapestStore(before), hist.item)
                     <= UnitPrice(prices, s, hist.item))
              => CheapestStore(display) = CheapestStore(before)

\* the raised item costs something at the cheapest store, which another
\* store undercuts on neither the item nor the total
C9_Witness ==
    LET before == calculatePrices(hist.before, prices)
    IN  /\ Increased
        /\ Len(before.totalsBody) = 2
        /\ UnitPrice(prices, CheapestStore(before), hist.item) > 0
        /\ \A s \in StoresOf(before) :
              UnitPrice(prices, CheapestStore(before), hist.item)
                 <= UnitPrice(prices, s, hist.item)
        /\ display.totalsBody[1].total < display.totalsBody[2].total
        /\ display.totalsBody[1].total > before.totalsBody[1].total

\* C10: logged out, the basket is empty.
C10_LoggedOutBasketEmpty == token = NoToken => basket = <<>>

====
